---------------------------- MODULE Spec2Model ----------------------------
(***************************************************************************)
(* Model of the Identity & Roster Consistency Layer of src/server.js:      *)
(* the login / register handlers, the student CRUD handlers and the        *)
(* token-protected class list, run as concurrent requests against the      *)
(* users, students and classes tables.                                     *)
(*                                                                         *)
(* A request is a process: every `await pool.execute(...)` of a handler is *)
(* one atomic step (one SQL statement), and the JavaScript between two     *)
(* awaits belongs to the step of the statement that follows it.  Steps of  *)
(* different requests interleave freely.  Every statement may fail         *)
(* (the promise rejects), which the handler's try/catch then routes.       *)
(* A field of the request body that only one statement uses (isActive,     *)
(* grade, section, rollNo) is drawn at the step of that statement: the     *)
(* body does not change during a request, so the behaviours are the same.  *)
(*                                                                         *)
(* Strings whose characters matter (passwords, bcrypt digests, student     *)
(* codes) are sequences of one-character strings.  NULL is "" for text     *)
(* columns, << >> for character sequences and 0 for identifiers.           *)
(***************************************************************************)
EXTENDS Integers, Sequences, FiniteSets, TLC

\* ------------------------------------------------------------------ bounds
\* requests that may be in flight at once
MaxReq == 2
\* rows the users table may hold
MaxUsers == 2

Reqs == 1..MaxReq

\* ------------------------------------------------------------ input values
Emails == {"e1", "e2"}
\* "" is a missing (falsy) request field
EmailInputs == Emails \cup {""}
\* firstName of a request body; "" is missing (lastName, phone: alike)
NameInputs == {"", "n1"}
RoleInputs == {"student", "teacher"}
PwA == <<"a">>
PwB == <<"b">>
\* a password that begins with the bcrypt marker "$2"
PwDollar == <<"$", "2", "b">>
\* << >> is a missing (falsy) password
PasswordInputs == {<< >>, PwA, PwB, PwDollar}
\* the passwords accounts are registered with
RegisterPasswords == {<< >>, PwA}
IdInputs == 1..MaxUsers
\* isActive of a request body: absent, null or false (true: as absent)
IsActiveInputs == {"undefined", "null", "false"}
\* (grade, section) of a request body; "" is absent
GradeSectionInputs == {<<"", "">>, <<"5", "A">>, <<"5", "B">>}
RollInputs == {"", "r1"}

\* ------------------------------------------------------- bcrypt (bcryptjs)
\* the version/cost prefix every digest of bcrypt.hash(_, 12) starts with
HashPrefix == <<"$", "2", "a", "$">>
Salts == {"s"}
DigestLen == 3
HashLen == Len(HashPrefix) + 1 + DigestLen

Scramble(c) ==
    CASE c = "a" -> "b"
      [] c = "b" -> "$"
      [] c = "$" -> "2"
      [] c = "2" -> "a"
      [] OTHER -> c

\* the digest part: a fixed-width, injective, non-identity image of the password
Digest(pw) ==
    [i \in 1..DigestLen |-> IF i <= Len(pw) THEN Scramble(pw[i]) ELSE "."]

\* bcrypt.hash(pw, 12) with the salt it drew
BcryptHash(pw, salt) == HashPrefix \o <<salt>> \o Digest(pw)

\* String.prototype.startsWith
StartsWith(s, p) == Len(s) >= Len(p) /\ SubSeq(s, 1, Len(p)) = p

\* bcrypt.compare(pw, stored): false for a string that is no digest
BcryptCompare(pw, stored) ==
    /\ Len(stored) = HashLen
    /\ \E salt \in Salts : stored = BcryptHash(pw, salt)

\* the hashed default credential of createStudent ('student123')
DefaultPassword == <<"a", "b">>

\* ----------------------------------------------------------- student code
RECURSIVE Digits(_)
\* String(n): the decimal digits of n
Digits(n) ==
    IF n < 10 THEN <<n>> ELSE Digits(n \div 10) \o <<n % 10>>

\* String.prototype.padStart(width, '0') on a digit sequence: never truncates
PadStart(ds, width) ==
    IF Len(ds) >= width THEN ds
    ELSE [i \in 1..(width - Len(ds)) |-> 0] \o ds

\* `STU${String(userId).padStart(3, '0')}`
StudentCode(userId) == <<"S", "T", "U">> \o PadStart(Digits(userId), 3)

\* SQL LPAD(str, len, '0'): pads on the left, and truncates to len
LPad(ds, width) ==
    IF Len(ds) >= width THEN SubSeq(ds, 1, width)
    ELSE [i \in 1..(width - Len(ds)) |-> 0] \o ds

\* CONCAT('STU', LPAD(u.id, 3, '0'))
SqlStudentCode(userId) == <<"S", "T", "U">> \o LPad(Digits(userId), 3)

\* ------------------------------------------------------------------- state
VARIABLES
    users,      \* the users table: rows in insertion order
    students,   \* the students (profile) table: rows in insertion order
    classes,    \* the classes table (no handler writes it)
    req,        \* the requests in flight: handler, position, arguments, locals
    resp        \* the response sent last, with the request it answers

tables == <<users, students, classes>>
vars == <<users, students, classes, req, resp>>

\* --------------------------------------------------------------- SQL helpers
Range(s) == {s[i] : i \in DOMAIN s}

\* the AUTO_INCREMENT value the next INSERT gets
NextId(tbl) ==
    IF tbl = << >> THEN 1
    ELSE 1 + CHOOSE m \in {r.id : r \in Range(tbl)} :
                 \A r \in Range(tbl) : r.id <= m

\* a request: what the handler read from req.body / req.params, and its locals
NoRequest ==
    [op |-> "none", pc |-> "idle", email |-> "", password |-> << >>,
     firstName |-> "", role |-> "", id |-> 0, grade |-> "", section |-> "",
     userId |-> 0, classId |-> 0]

NoResponse ==
    [op |-> "none", id |-> 0, email |-> "", status |-> 0, message |-> "",
     body |-> << >>]

\* res.status(s).json({message: m, ...b}) for request rq
Response(rq, s, m, b) ==
    [op |-> rq.op, id |-> rq.id, email |-> rq.email, status |-> s,
     message |-> m, body |-> b]

\* ---------------------------------------------------------------- initial
\* rows that predate the service: legacy accounts with a plaintext credential
LegacyRows ==
    {[id |-> 1, email |-> "e1", password |-> pw, role |-> "teacher",
      first_name |-> "n1", is_active |-> TRUE] : pw \in {PwA, PwDollar}}

SeedClasses ==
    << [id |-> 1, grade |-> "5", section |-> "A", is_active |-> TRUE],
       [id |-> 2, grade |-> "5", section |-> "B", is_active |-> FALSE] >>

Init ==
    /\ users \in {<< >>} \cup {<<u>> : u \in LegacyRows}
    /\ students = << >>
    /\ classes = SeedClasses
    /\ req = [r \in Reqs |-> NoRequest]
    /\ resp = NoResponse

\* a request slot is free; the slots are taken in order
Free(r) ==
    /\ req[r].pc = "idle"
    /\ \A q \in Reqs : q < r => req[q].pc # "idle"

\* the request of slot r responds and leaves
Finish(r, s, m, b) ==
    /\ resp' = Response(req[r], s, m, b)
    /\ req' = [req EXCEPT ![r] = NoRequest]

\* the request of slot r goes on to its next statement
Goto(r, rq) == req' = [req EXCEPT ![r] = rq] /\ resp' = resp

\* ------------------------------------------------------------------ store
\* mutant: a users table without the UNIQUE index
NoUniqueIndex(tbl) == TRUE

\* The users table's UNIQUE index on email (the schema is not part of the
\* sources; the data model states it): a table state the store accepts.
UniqueEmailOK(tbl) ==
    \A i, j \in DOMAIN tbl : tbl[i].email = tbl[j].email => i = j

\* requests that passed their checks and are about to INSERT INTO users
Inserting == {q \in Reqs : req[q].pc \in {"reg_insert", "cs_insert"}}

\* the model's cap on the users table
RoomForUser == Len(users) + Cardinality(Inserting) < MaxUsers

\* ------------------------------------------------- POST /api/auth/login
\* mutant: the login SELECT without AND is_active = TRUE
LoginLookupAnyFlag(email) == SelectSeq(users, LAMBDA u : u.email = email)

\* SELECT ... FROM users WHERE email = ? AND is_active = TRUE
LoginLookup(email) ==
    SelectSeq(users, LAMBDA u : u.email = email /\ u.is_active)

\* mutant: the credential is always compared as plain text
PasswordValidPlainOnly(password, stored) == password = stored

\* the dual-mode password check
PasswordValid(password, stored) ==
    IF StartsWith(stored, <<"$", "2">>)
    THEN BcryptCompare(password, stored)
    ELSE password = stored

\* the public account view of a response
UserView(u) == [id |-> u.id, email |-> u.email, role |-> u.role]

\* mutant: an unknown email is answered differently from a wrong password
LoginResponseRevealing(rq, fail) ==
    IF rq.email = "" \/ rq.password = << >>
    THEN Response(rq, 400, "Email and password are required", << >>)
    ELSE IF fail
    THEN Response(rq, 500, "Internal server error", << >>)
    ELSE IF LoginLookup(rq.email) = << >>
    THEN Response(rq, 404, "User not found", << >>)
    ELSE LET user == LoginLookup(rq.email)[1] IN
         IF ~PasswordValid(rq.password, user.password)
         THEN Response(rq, 401, "Invalid email or password", << >>)
         ELSE Response(rq, 200, "Login successful", <<UserView(user)>>)

\* the response of the login handler; fail: the SELECT rejects
LoginResponse(rq, fail) ==
    IF rq.email = "" \/ rq.password = << >>
    THEN Response(rq, 400, "Email and password are required", << >>)
    ELSE IF fail
    THEN Response(rq, 500, "Internal server error", << >>)
    ELSE IF LoginLookup(rq.email) = << >>
    THEN Response(rq, 401, "Invalid email or password", << >>)
    ELSE LET user == LoginLookup(rq.email)[1] IN
         IF ~PasswordValid(rq.password, user.password)
         THEN Response(rq, 401, "Invalid email or password", << >>)
         ELSE Response(rq, 200, "Login successful", <<UserView(user)>>)

LoginRequest(email, password) ==
    [NoRequest EXCEPT !.op = "login", !.email = email, !.password = password]

Login(email, password, fail) ==
    /\ resp' = LoginResponse(LoginRequest(email, password), fail)
    /\ UNCHANGED <<users, students, classes, req>>

\* ---------------------------------------------- POST /api/auth/register
\* mutant: the existence check counts active accounts only
EmailExistsActive(email) ==
    \E i \in DOMAIN users : users[i].email = email /\ users[i].is_active

\* SELECT id FROM users WHERE email = ?  (rows.length > 0)
EmailExists(email) == \E i \in DOMAIN users : users[i].email = email

RegisterRequest(email, password, firstName, role) ==
    [NoRequest EXCEPT !.op = "register", !.email = email,
                      !.password = password, !.firstName = firstName,
                      !.role = role]

\* validation and the existence check; fail: the SELECT rejects
RegisterBegin(r, email, password, firstName, role, fail) ==
    /\ Free(r)
    /\ LET rq == RegisterRequest(email, password, firstName, role) IN
       IF email = "" \/ password = << >> \/ firstName = "" \/ role = ""
       THEN /\ resp' = Response(rq, 400,
                 "Email, password, first name, last name, and role are required",
                 << >>)
            /\ req' = req
       ELSE IF fail
       THEN resp' = Response(rq, 500, "Internal server error", << >>) /\ req' = req
       ELSE IF EmailExists(email)
       THEN /\ resp' = Response(rq, 409, "User with this email already exists",
                                << >>)
            /\ req' = req
       ELSE RoomForUser /\ Goto(r, [rq EXCEPT !.pc = "reg_insert"])
    /\ UNCHANGED <<users, students, classes>>

\* mutant: register stores the password as it came
RegisterRowPlain(rq, salt) ==
    [id |-> NextId(users), email |-> rq.email,
     password |-> rq.password, role |-> rq.role,
     first_name |-> rq.firstName, is_active |-> TRUE]

\* the row register inserts: hashed credential, is_active = TRUE
RegisterRow(rq, salt) ==
    [id |-> NextId(users), email |-> rq.email,
     password |-> BcryptHash(rq.password, salt), role |-> rq.role,
     first_name |-> rq.firstName, is_active |-> TRUE]

\* INSERT INTO users ...; a rejected INSERT reaches the handler's catch
RegisterInsert(r, salt, fail) ==
    /\ req[r].pc = "reg_insert"
    /\ LET row == RegisterRow(req[r], salt) IN
       IF fail \/ ~UniqueEmailOK(Append(users, row))
       THEN users' = users /\ Finish(r, 500, "Internal server error", << >>)
       ELSE /\ users' = Append(users, row)
            /\ Finish(r, 201, "Registration successful!", <<UserView(row)>>)
    /\ UNCHANGED <<students, classes>>

\* ------------------------------------------------------- student queries
\* mutant: the student check also asks for is_active = TRUE
StudentExistsActive(id) ==
    \E i \in DOMAIN users :
        users[i].id = id /\ users[i].role = "student" /\ users[i].is_active

\* mutant: the student check without AND role = "student"
StudentExistsAnyRole(id) == \E i \in DOMAIN users : users[i].id = id

\* SELECT id FROM users WHERE id = ? AND role = "student"  (rows.length > 0)
StudentExists(id) ==
    \E i \in DOMAIN users : users[i].id = id /\ users[i].role = "student"

NullProfile ==
    [id |-> 0, user_id |-> 0, student_id |-> << >>, roll_number |-> "",
     class_id |-> 0, is_active |-> FALSE]

NullClass == [id |-> 0, grade |-> "", section |-> "", is_active |-> FALSE]

\* one row of the student SELECT: u, its profile s and class c (or NULLs)
StudentView(u, s, c) ==
    [id |-> u.id, first_name |-> u.first_name, email |-> u.email,
     is_active |-> u.is_active, roll_no |-> s.roll_number,
     grade |-> c.grade, section |-> c.section,
     \* COALESCE(s.student_id, CONCAT('STU', LPAD(u.id, 3, '0')))
     student_id |-> IF s.student_id # << >> THEN s.student_id
                    ELSE SqlStudentCode(u.id)]

\* LEFT JOIN classes c ON s.class_id = c.id
JoinClass(u, s) ==
    LET cs == SelectSeq(classes, LAMBDA c : s.class_id # 0 /\ c.id = s.class_id)
    IN  IF cs = << >> THEN <<StudentView(u, s, NullClass)>>
        ELSE [k \in DOMAIN cs |-> StudentView(u, s, cs[k])]

RECURSIVE Flatten(_)
Flatten(ss) == IF ss = << >> THEN << >> ELSE Head(ss) \o Flatten(Tail(ss))

\* LEFT JOIN students s ON u.id = s.user_id, then the class join
JoinStudent(u) ==
    LET ps == SelectSeq(students, LAMBDA s : s.user_id = u.id)
    IN  IF ps = << >> THEN JoinClass(u, NullProfile)
        ELSE Flatten([k \in DOMAIN ps |-> JoinClass(u, ps[k])])

Reverse(s) == [i \in DOMAIN s |-> s[Len(s) + 1 - i]]

\* mutant: the list forgets AND u.is_active = TRUE
ListFilterAnyFlag(u) == u.role = "student"

\* WHERE u.role = 'student' AND u.is_active = TRUE
ListFilter(u) == u.role = "student" /\ u.is_active

\* the rows of GET /api/students: ORDER BY u.created_at DESC
ListRows ==
    LET us == Reverse(SelectSeq(users, ListFilter))
    IN  Flatten([k \in DOMAIN us |-> JoinStudent(us[k])])

\* mutant: the single-student query filters on is_active like the list
GetFilterActive(u, id) == u.id = id /\ u.role = "student" /\ u.is_active

\* WHERE u.id = ? AND u.role = 'student'
GetFilter(u, id) == u.id = id /\ u.role = "student"

\* the rows of GET /api/students/:id
GetRows(id) ==
    LET us == SelectSeq(users, LAMBDA u : GetFilter(u, id))
    IN  Flatten([k \in DOMAIN us |-> JoinStudent(us[k])])

\* ---------------------------------------------------- GET /api/students
ListStudents(fail) ==
    /\ resp' = IF fail
               THEN Response([NoRequest EXCEPT !.op = "list"], 500,
                             "Error fetching students: <error.message>", << >>)
               ELSE Response([NoRequest EXCEPT !.op = "list"], 200, "", ListRows)
    /\ UNCHANGED <<users, students, classes, req>>

\* ------------------------------------------------ GET /api/students/:id
GetStudent(id, fail) ==
    /\ LET rq == [NoRequest EXCEPT !.op = "get", !.id = id] IN
       resp' = IF fail
               THEN Response(rq, 500, "Error fetching student: <error.message>",
                             << >>)
               ELSE IF GetRows(id) = << >>
               THEN Response(rq, 404, "Student not found", << >>)
               ELSE Response(rq, 200, "", <<GetRows(id)[1]>>)
    /\ UNCHANGED <<users, students, classes, req>>

\* ------------------------------------------------------- class resolver
\* mutant: the class SELECT without AND is_active = TRUE
ClassLookupAnyFlag(grade, section) ==
    LET cs == SelectSeq(classes, LAMBDA c : c.grade = grade
                                           /\ c.section = section)
    IN  IF cs = << >> THEN 0 ELSE cs[1].id

\* SELECT id FROM classes WHERE grade = ? AND section = ?
\*   AND is_active = TRUE LIMIT 1      (0: no row)
ClassLookup(grade, section) ==
    LET cs == SelectSeq(classes, LAMBDA c : c.grade = grade
                                           /\ c.section = section
                                           /\ c.is_active)
    IN  IF cs = << >> THEN 0 ELSE cs[1].id

\* if (grade && section)
HasGradeSection(gs) == gs[1] # "" /\ gs[2] # ""

\* --------------------------------------------------- POST /api/students
StudentRequest(op, id, firstName, email) ==
    [NoRequest EXCEPT !.op = op, !.id = id, !.firstName = firstName,
                      !.email = email]

\* validation and the existence check; fail: the SELECT rejects
CreateBegin(r, firstName, email, fail) ==
    /\ Free(r)
    /\ LET rq == StudentRequest("create", 0, firstName, email) IN
       IF firstName = "" \/ email = ""
       THEN /\ resp' = Response(rq, 400,
                         "First name, last name, and email are required", << >>)
            /\ req' = req
       ELSE IF fail
       THEN /\ resp' = Response(rq, 500,
                         "Error creating student: <error.message>", << >>)
            /\ req' = req
       ELSE IF EmailExists(email)
       THEN /\ resp' = Response(rq, 409, "User with this email already exists",
                                << >>)
            /\ req' = req
       ELSE RoomForUser /\ Goto(r, [rq EXCEPT !.pc = "cs_insert"])
    /\ UNCHANGED <<users, students, classes>>

\* the row createStudent inserts: the hashed default credential,
\* role 'student', is_active = (isActive !== false)
CreateRow(rq, salt, isActive) ==
    [id |-> NextId(users), email |-> rq.email,
     password |-> BcryptHash(DefaultPassword, salt), role |-> "student",
     first_name |-> rq.firstName, is_active |-> (isActive # "false")]

\* INSERT INTO users ...; a rejected INSERT reaches the outer catch
CreateInsertUser(r, salt, isActive, gs, fail) ==
    /\ req[r].pc = "cs_insert"
    /\ LET row == CreateRow(req[r], salt, isActive) IN
       IF fail \/ ~UniqueEmailOK(Append(users, row))
       THEN /\ users' = users
            /\ Finish(r, 500, "Error creating student: <error.message>", << >>)
       ELSE /\ users' = Append(users, row)
            /\ Goto(r, [req[r] EXCEPT
                          !.userId = row.id,
                          !.grade = gs[1], !.section = gs[2],
                          !.pc = IF HasGradeSection(gs) THEN "cs_class"
                                 ELSE "cs_profile"])
    /\ UNCHANGED <<students, classes>>

\* the class SELECT in its own try: a rejection leaves classId null
CreateClassLookup(r, fail) ==
    /\ req[r].pc = "cs_class"
    /\ Goto(r, [req[r] EXCEPT
                  !.classId = IF fail THEN 0
                              ELSE ClassLookup(req[r].grade, req[r].section),
                  !.pc = "cs_profile"])
    /\ UNCHANGED <<users, students, classes>>

\* mutant: the profile row refers to req.params.id instead of insertId
ProfileRowOfParam(rq, rollNo) ==
    [id |-> NextId(students), user_id |-> rq.id,
     student_id |-> StudentCode(rq.userId), roll_number |-> rollNo,
     class_id |-> rq.classId, is_active |-> TRUE]

\* the row of INSERT INTO students (..., is_active) VALUES (..., TRUE)
ProfileRow(rq, rollNo) ==
    [id |-> NextId(students), user_id |-> rq.userId,
     student_id |-> StudentCode(rq.userId), roll_number |-> rollNo,
     class_id |-> rq.classId, is_active |-> TRUE]

\* mutant: the profile INSERT without its try/catch (a rejection reaches
\* the outer catch)
CreateInsertProfileNoCatch(r, rollNo, fail) ==
    /\ req[r].pc = "cs_profile"
    /\ IF fail
       THEN /\ students' = students
            /\ Finish(r, 500, "Error creating student: <error.message>", << >>)
       ELSE /\ students' = Append(students, ProfileRow(req[r], rollNo))
            /\ Finish(r, 201, "Student created successfully",
                      <<[id |-> req[r].userId,
                         studentId |-> StudentCode(req[r].userId)]>>)
    /\ UNCHANGED <<users, classes>>

\* the profile INSERT in its own try, then the 201 response
CreateInsertProfile(r, rollNo, fail) ==
    /\ req[r].pc = "cs_profile"
    /\ students' = IF fail THEN students
                   ELSE Append(students, ProfileRow(req[r], rollNo))
    /\ Finish(r, 201, "Student created successfully",
              <<[id |-> req[r].userId,
                 studentId |-> StudentCode(req[r].userId)]>>)
    /\ UNCHANGED <<users, classes>>

\* ------------------------------------------------ PUT /api/students/:id
\* validation and the student check; fail: the SELECT rejects
UpdateBegin(r, id, firstName, email, fail) ==
    /\ Free(r)
    /\ LET rq == StudentRequest("update", id, firstName, email) IN
       IF firstName = "" \/ email = ""
       THEN /\ resp' = Response(rq, 400,
                         "First name, last name, and email are required", << >>)
            /\ req' = req
       ELSE IF fail
       THEN /\ resp' = Response(rq, 500,
                         "Error updating student: <error.message>", << >>)
            /\ req' = req
       ELSE IF ~StudentExists(id)
       THEN resp' = Response(rq, 404, "Student not found", << >>) /\ req' = req
       ELSE Goto(r, [rq EXCEPT !.pc = "us_email"])
    /\ UNCHANGED <<users, students, classes>>

\* mutant: the email check forgets AND id != ?
EmailUsedAtAll(email, id) == \E i \in DOMAIN users : users[i].email = email

\* SELECT id FROM users WHERE email = ? AND id != ?  (rows.length > 0)
EmailUsedByOther(email, id) ==
    \E i \in DOMAIN users : users[i].email = email /\ users[i].id # id

UpdateEmailCheck(r, fail) ==
    /\ req[r].pc = "us_email"
    /\ IF fail
       THEN Finish(r, 500, "Error updating student: <error.message>", << >>)
       ELSE IF EmailUsedByOther(req[r].email, req[r].id)
       THEN Finish(r, 409, "Email already in use by another user", << >>)
       ELSE Goto(r, [req[r] EXCEPT !.pc = "us_update"])
    /\ UNCHANGED <<users, students, classes>>

\* mutant: UPDATE users that leaves is_active alone unless isActive is false
UpdatedUsersKeepFlag(rq, isActive) ==
    [i \in DOMAIN users |->
        IF users[i].id = rq.id /\ users[i].role = "student"
        THEN [users[i] EXCEPT !.first_name = rq.firstName,
                              !.email = rq.email,
                              !.is_active = IF isActive = "false" THEN FALSE
                                            ELSE users[i].is_active]
        ELSE users[i]]

\* UPDATE users SET first_name, ..., email, ..., is_active = (isActive !== false)
\*   WHERE id = ? AND role = 'student'
UpdatedUsers(rq, isActive) ==
    [i \in DOMAIN users |->
        IF users[i].id = rq.id /\ users[i].role = "student"
        THEN [users[i] EXCEPT !.first_name = rq.firstName,
                              !.email = rq.email,
                              !.is_active = (isActive # "false")]
        ELSE users[i]]

\* a rejected UPDATE reaches the outer catch
UpdateUser(r, isActive, gs, fail) ==
    /\ req[r].pc = "us_update"
    /\ IF fail \/ ~UniqueEmailOK(UpdatedUsers(req[r], isActive))
       THEN /\ users' = users
            /\ Finish(r, 500, "Error updating student: <error.message>", << >>)
       ELSE /\ users' = UpdatedUsers(req[r], isActive)
            /\ Goto(r, [req[r] EXCEPT
                          !.grade = gs[1], !.section = gs[2],
                          !.pc = IF HasGradeSection(gs) THEN "us_class"
                                 ELSE "us_profile"])
    /\ UNCHANGED <<students, classes>>

\* the class SELECT shares the try of the profile UPDATE: a rejection skips
\* that UPDATE and the handler answers 200
UpdateClassLookup(r, fail) ==
    /\ req[r].pc = "us_class"
    /\ IF fail
       THEN Finish(r, 200, "Student updated successfully", << >>)
       ELSE Goto(r, [req[r] EXCEPT
                       !.classId = ClassLookup(req[r].grade, req[r].section),
                       !.pc = "us_profile"])
    /\ UNCHANGED <<users, students, classes>>

\* mutant: the profile UPDATE keeps the class-link when none is resolved
UpdatedProfilesKeepLink(rq, rollNo) ==
    [i \in DOMAIN students |->
        IF students[i].user_id = rq.id
        THEN [students[i] EXCEPT !.roll_number = rollNo,
                                 !.class_id = IF rq.classId = 0
                                              THEN students[i].class_id
                                              ELSE rq.classId]
        ELSE students[i]]

\* UPDATE students SET roll_number = ?, class_id = ?, parent_name = ?
\*   WHERE user_id = ?
UpdatedProfiles(rq, rollNo) ==
    [i \in DOMAIN students |->
        IF students[i].user_id = rq.id
        THEN [students[i] EXCEPT !.roll_number = rollNo,
                                 !.class_id = rq.classId]
        ELSE students[i]]

\* mutant: the profile UPDATE without its try/catch
UpdateProfileNoCatch(r, rollNo, fail) ==
    /\ req[r].pc = "us_profile"
    /\ IF fail
       THEN /\ students' = students
            /\ Finish(r, 500, "Error updating student: <error.message>", << >>)
       ELSE /\ students' = UpdatedProfiles(req[r], rollNo)
            /\ Finish(r, 200, "Student updated successfully", << >>)
    /\ UNCHANGED <<users, classes>>

UpdateProfile(r, rollNo, fail) ==
    /\ req[r].pc = "us_profile"
    /\ students' = IF fail THEN students ELSE UpdatedProfiles(req[r], rollNo)
    /\ Finish(r, 200, "Student updated successfully", << >>)
    /\ UNCHANGED <<users, classes>>

\* --------------------------------------------- DELETE /api/students/:id
DeleteBegin(r, id, fail) ==
    /\ Free(r)
    /\ LET rq == [NoRequest EXCEPT !.op = "delete", !.id = id] IN
       IF fail
       THEN /\ resp' = Response(rq, 500,
                         "Error deleting student: <error.message>", << >>)
            /\ req' = req
       ELSE IF ~StudentExists(id)
       THEN resp' = Response(rq, 404, "Student not found", << >>) /\ req' = req
       ELSE Goto(r, [rq EXCEPT !.pc = "ds_update"])
    /\ UNCHANGED <<users, students, classes>>

\* mutant: DELETE FROM users WHERE id = ? AND role = "student"
HardDeletedUsers(id) ==
    SelectSeq(users, LAMBDA u : ~(u.id = id /\ u.role = "student"))

\* UPDATE users SET is_active = FALSE WHERE id = ? AND role = "student"
SoftDeletedUsers(id) ==
    [i \in DOMAIN users |->
        IF users[i].id = id /\ users[i].role = "student"
        THEN [users[i] EXCEPT !.is_active = FALSE]
        ELSE users[i]]

DeleteUser(r, fail) ==
    /\ req[r].pc = "ds_update"
    /\ IF fail
       THEN /\ users' = users
            /\ Finish(r, 500, "Error deleting student: <error.message>", << >>)
       ELSE /\ users' = SoftDeletedUsers(req[r].id)
            /\ Goto(r, [req[r] EXCEPT !.pc = "ds_profile"])
    /\ UNCHANGED <<students, classes>>

\* UPDATE students SET is_active = FALSE WHERE user_id = ?
SoftDeletedProfiles(id) ==
    [i \in DOMAIN students |->
        IF students[i].user_id = id
        THEN [students[i] EXCEPT !.is_active = FALSE]
        ELSE students[i]]

DeleteProfile(r, fail) ==
    /\ req[r].pc = "ds_profile"
    /\ students' = IF fail THEN students ELSE SoftDeletedProfiles(req[r].id)
    /\ Finish(r, 200, "Student deleted successfully", << >>)
    /\ UNCHANGED <<users, classes>>

\* ------------------------------------------------- authenticateToken (JWT)
\* process.env.JWT_SECRET || 'fallback-secret-key'
JwtSecret == "k"
\* the keys a presented token may have been signed with
JwtKeys == {JwtSecret, "x"}
\* the clock, in days; tokens are issued with expiresIn: '24h'
MaxTime == 2
Times == 1..MaxTime
TokenLife == 1

\* the claims of a token for account userId issued at time iat
JwtPayload(userId, iat) == [userId |-> userId, exp |-> iat + TokenLife]

\* the signature segment: binds the key to the payload it signed
JwtSignature(payload, key) == <<key, payload>>

\* jwt.sign(payload, key): the payload segment and the signature segment
JwtSign(payload, key) == <<payload, JwtSignature(payload, key)>>

\* a token with a segment missing
MalformedToken == <<JwtPayload(1, 1)>>
\* a token whose payload was changed after it was signed
TamperedToken == <<JwtPayload(2, 1), JwtSignature(JwtPayload(1, 1), JwtSecret)>>

TokenInputs ==
    {JwtSign(JwtPayload(1, iat), key) : iat \in {0, 1}, key \in JwtKeys}
        \cup {MalformedToken, TamperedToken}

\* req.headers['authorization'] by the words split(' ') cuts it into: the
\* first word and the words after it (the empty word << >> is what two
\* adjacent spaces leave)
NoHeader == [present |-> FALSE, first |-> "", rest |-> << >>]
Header(first, rest) == [present |-> TRUE, first |-> first, rest |-> rest]

HeaderInputs ==
    {NoHeader, Header("Bearer", << >>), Header("<token>", << >>)}
        \cup {Header("Bearer", <<t>>) : t \in TokenInputs}
        \cup {Header("Bearer", << << >>, JwtSign(JwtPayload(1, 1), JwtSecret) >>)}

\* authHeader && authHeader.split(' ')[1]   (<< >>: undefined or '')
HeaderToken(header) ==
    IF header.present /\ Len(header.rest) >= 1 THEN header.rest[1] ELSE << >>

\* mutant: verification that does not look at the expiry
JwtVerifyNoExpiry(token, now) ==
    /\ Len(token) = 2
    /\ token[2] = JwtSignature(token[1], JwtSecret)

\* jwt.verify(token, secret) calls back without err
JwtVerify(token, now) ==
    /\ Len(token) = 2
    /\ token[2] = JwtSignature(token[1], JwtSecret)
    /\ now < token[1].exp

\* --------------------------------------------- GET /api/classes/management
\* mutant: the join without AND s.is_active = TRUE
StudentCountAnyFlag(c) ==
    Cardinality({k \in DOMAIN students : students[k].class_id = c.id})

\* COUNT(s.id) over LEFT JOIN students s ON c.id = s.class_id
\*   AND s.is_active = TRUE
StudentCount(c) ==
    Cardinality({k \in DOMAIN students :
                    students[k].class_id = c.id /\ students[k].is_active})

\* WHERE c.is_active = TRUE GROUP BY c.id ORDER BY c.grade, c.section
\* (the classes table is kept here in that order)
ClassRows ==
    LET cs == SelectSeq(classes, LAMBDA c : c.is_active)
    IN  [k \in DOMAIN cs |->
            [id |-> cs[k].id, grade |-> cs[k].grade, section |-> cs[k].section,
             student_count |-> StudentCount(cs[k])]]

\* the middleware, then the handler; fail: the SELECT rejects
ListClassesResponse(header, now, fail) ==
    LET rq == [NoRequest EXCEPT !.op = "classes"]
        token == HeaderToken(header)
    IN  IF token = << >>
        THEN Response(rq, 401, "Access token required", << >>)
        ELSE IF ~JwtVerify(token, now)
        THEN Response(rq, 403, "Invalid or expired token", << >>)
        ELSE IF fail
        THEN Response(rq, 500, "Failed to fetch classes", << >>)
        ELSE Response(rq, 200, "", ClassRows)

ListClasses(header, now, fail) ==
    /\ resp' = ListClassesResponse(header, now, fail)
    /\ UNCHANGED <<users, students, classes, req>>

\* ------------------------------------------------------------ the service
\* one request at a time
OneAtATime == {1}

LoginStep ==
    \E email \in EmailInputs, password \in PasswordInputs \cup {DefaultPassword},
       fail \in BOOLEAN :
        Login(email, password, fail)

RegisterSteps(R) ==
    \/ \E r \in R, email \in EmailInputs, password \in RegisterPasswords,
          firstName \in NameInputs, role \in RoleInputs, fail \in BOOLEAN :
         RegisterBegin(r, email, password, firstName, role, fail)
    \/ \E r \in R, salt \in Salts, fail \in BOOLEAN :
         RegisterInsert(r, salt, fail)

ReadSteps ==
    \/ \E fail \in BOOLEAN : ListStudents(fail)
    \/ \E id \in IdInputs, fail \in BOOLEAN : GetStudent(id, fail)

CreateSteps(R, GS, Rolls) ==
    \/ \E r \in R, firstName \in NameInputs, email \in EmailInputs,
          fail \in BOOLEAN :
         CreateBegin(r, firstName, email, fail)
    \/ \E r \in R, salt \in Salts, isActive \in IsActiveInputs,
          gs \in GS, fail \in BOOLEAN :
         CreateInsertUser(r, salt, isActive, gs, fail)
    \/ \E r \in R, rollNo \in Rolls, fail \in BOOLEAN :
         CreateInsertProfile(r, rollNo, fail)

UpdateSteps(R, GS, Rolls) ==
    \/ \E r \in R, id \in IdInputs, firstName \in NameInputs,
          email \in EmailInputs, fail \in BOOLEAN :
         UpdateBegin(r, id, firstName, email, fail)
    \/ \E r \in R, fail \in BOOLEAN : UpdateEmailCheck(r, fail)
    \/ \E r \in R, isActive \in IsActiveInputs, gs \in GS,
          fail \in BOOLEAN :
         UpdateUser(r, isActive, gs, fail)
    \/ \E r \in R, rollNo \in Rolls, fail \in BOOLEAN :
         UpdateProfile(r, rollNo, fail)

ClassesStep ==
    \E header \in HeaderInputs, now \in Times, fail \in BOOLEAN :
        ListClasses(header, now, fail)

\* the class SELECT of createStudent and updateStudent (bodies with grade
\* and section)
ClassLookupSteps(R) ==
    \/ \E r \in R, fail \in BOOLEAN : CreateClassLookup(r, fail)
    \/ \E r \in R, fail \in BOOLEAN : UpdateClassLookup(r, fail)

DeleteSteps(R) ==
    \/ \E r \in R, id \in IdInputs, fail \in BOOLEAN : DeleteBegin(r, id, fail)
    \/ \E r \in R, fail \in BOOLEAN : DeleteUser(r, fail)
    \/ \E r \in R, fail \in BOOLEAN : DeleteProfile(r, fail)

\* every handler, any request body, MaxReq requests in flight
Next ==
    \/ LoginStep
    \/ RegisterSteps(Reqs)
    \/ ReadSteps
    \/ ClassesStep
    \/ CreateSteps(Reqs, GradeSectionInputs, RollInputs)
    \/ UpdateSteps(Reqs, GradeSectionInputs, RollInputs)
    \/ ClassLookupSteps(Reqs)
    \/ DeleteSteps(Reqs)

Spec == Init /\ [][Next]_vars

\* concurrent writers of the users table (bodies without grade/section/rollNo)
NextRace ==
    \/ RegisterSteps(Reqs)
    \/ CreateSteps(Reqs, {<<"", "">>}, {""})
    \/ UpdateSteps(Reqs, {<<"", "">>}, {""})

SpecRace == Init /\ [][NextRace]_vars

\* the student handlers, one request at a time (accounts that are no
\* students are the legacy rows)
NextRoster ==
    \/ ReadSteps
    \/ CreateSteps(OneAtATime, GradeSectionInputs, RollInputs)
    \/ UpdateSteps(OneAtATime, GradeSectionInputs, RollInputs)
    \/ ClassLookupSteps(OneAtATime)
    \/ DeleteSteps(OneAtATime)

SpecRoster == Init /\ [][NextRoster]_vars

\* login against the accounts the other handlers leave, one request at a time
NextAuth ==
    \/ LoginStep
    \/ RegisterSteps(OneAtATime)
    \/ CreateSteps(OneAtATime, {<<"", "">>}, {""})
    \/ UpdateSteps(OneAtATime, {<<"", "">>}, {""})
    \/ DeleteSteps(OneAtATime)

SpecAuth == Init /\ [][NextAuth]_vars

\* the token-protected class list against the profiles that createStudent and
\* deleteStudent leave, one request at a time
NextClasses ==
    \/ ClassesStep
    \/ CreateSteps(OneAtATime, GradeSectionInputs, {""})
    \/ \E fail \in BOOLEAN : CreateClassLookup(1, fail)
    \/ DeleteSteps(OneAtATime)

SpecClasses == Init /\ [][NextClasses]_vars

\* createStudent, updateStudent and deleteStudent one at a time when no
\* statement is rejected
NextNoFault ==
    \/ \E firstName \in NameInputs, email \in EmailInputs :
         CreateBegin(1, firstName, email, FALSE)
    \/ \E salt \in Salts, isActive \in IsActiveInputs,
          gs \in GradeSectionInputs :
         CreateInsertUser(1, salt, isActive, gs, FALSE)
    \/ CreateClassLookup(1, FALSE)
    \/ \E rollNo \in RollInputs : CreateInsertProfile(1, rollNo, FALSE)
    \/ \E id \in IdInputs, firstName \in NameInputs, email \in EmailInputs :
         UpdateBegin(1, id, firstName, email, FALSE)
    \/ UpdateEmailCheck(1, FALSE)
    \/ \E isActive \in IsActiveInputs, gs \in GradeSectionInputs :
         UpdateUser(1, isActive, gs, FALSE)
    \/ UpdateClassLookup(1, FALSE)
    \/ \E rollNo \in RollInputs : UpdateProfile(1, rollNo, FALSE)
    \/ \E id \in IdInputs : DeleteBegin(1, id, FALSE)
    \/ DeleteUser(1, FALSE)
    \/ DeleteProfile(1, FALSE)

SpecNoFault == Init /\ [][NextNoFault]_vars

\* the student code of accounts whose identifier has two, three and four
\* digits: the store holds an account with the identifier before (the rows
\* before that one, which no request here touches, are left out)
CodeIds == {10, 100, 1000}

InitCode ==
    /\ users \in {<<[id |-> n - 1, email |-> "e1", password |-> PwA,
                     role |-> "teacher", first_name |-> "n1",
                     is_active |-> TRUE]>> : n \in CodeIds}
    /\ students = << >>
    /\ classes = SeedClasses
    /\ req = [r \in Reqs |-> NoRequest]
    /\ resp = NoResponse

NextCode ==
    \/ CreateSteps(OneAtATime, {<<"", "">>}, {""})
    \/ \E fail \in BOOLEAN : ListStudents(fail)
    \/ \E id \in CodeIds, fail \in BOOLEAN : GetStudent(id, fail)

SpecCode == InitCode /\ [][NextCode]_vars

\* ================================================================ claims
\* no request is in flight: the tables are as the last response left them
Idle == \A r \in Reqs : req[r].pc = "idle"

C2_LoserGetsConflict ==
    [][\A r \in Reqs, salt \in Salts :
          ( /\ \E i \in DOMAIN users : users[i].email = req[r].email
            /\ \/ RegisterInsert(r, salt, FALSE)
               \/ \E isActive \in IsActiveInputs :
                     CreateInsertUser(r, salt, isActive, <<"", "">>, FALSE) )
          => (users' = users /\ resp'.status = 409)]_vars

\* C3: createStudent whose class SELECT fails goes on to the profile INSERT,
\* and whether that INSERT fails or not the request is answered 201 with the
\* new account's identifier, and that account row exists with role student.
C3_ProfileFailureTolerated ==
    [][\A r \in Reqs :
          /\ CreateClassLookup(r, TRUE) => req'[r].pc = "cs_profile"
          /\ \A rollNo \in RollInputs, fail \in BOOLEAN :
                CreateInsertProfile(r, rollNo, fail) =>
                    /\ resp'.op = "create"
                    /\ resp'.status = 201
                    /\ resp'.body[1].id = req[r].userId
                    /\ \E i \in DOMAIN users' :
                          /\ users'[i].id = resp'.body[1].id
                          /\ users'[i].role = "student"
                          /\ users'[i].email = resp'.email]_vars

\* a 201 of createStudent for an account that has no profile row
C3_Witness ==
    /\ resp.op = "create"
    /\ resp.status = 201
    /\ \E i \in DOMAIN users : users[i].id = resp.body[1].id
    /\ \A k \in DOMAIN students : students[k].user_id # resp.body[1].id

\* C4: deleteStudent answers 404 only when no student account with that id
\* exists (an inactive one is deleted again with success), and after each
\* successful call the account is inactive.
C4_DeleteIdempotent ==
    /\ (resp.op = "delete" /\ resp.status = 404 /\ Idle) =>
          ~\E i \in DOMAIN users :
               users[i].id = resp.id /\ users[i].role = "student"
    /\ (resp.op = "delete" /\ resp.status = 200 /\ Idle) =>
          /\ \E i \in DOMAIN users :
                users[i].id = resp.id /\ users[i].role = "student"
          /\ \A i \in DOMAIN users : users[i].id = resp.id => ~users[i].is_active
    /\ \A r \in Reqs :
          (req[r].op = "delete" /\ req[r].pc = "ds_profile") =>
              \A i \in DOMAIN users :
                  users[i].id = req[r].id => ~users[i].is_active

\* deleteStudent(id) answered 200 and the next deleteStudent(id) has passed
\* its existence check and written the account again
C4_Witness ==
    /\ resp.op = "delete"
    /\ resp.status = 200
    /\ req[1].op = "delete"
    /\ req[1].pc = "ds_profile"
    /\ req[1].id = resp.id

\* C5: every row listActiveStudents returns is an account with role student
\* and active = true.
C5_ListOnlyActive ==
    (resp.op = "list" /\ resp.status = 200) =>
        \A k \in DOMAIN resp.body :
            /\ resp.body[k].is_active
            /\ \E i \in DOMAIN users :
                  users[i].id = resp.body[k].id /\ users[i].role = "student"

\* a list was answered while an inactive student and an active one exist
C5_Witness ==
    /\ resp.op = "list"
    /\ resp.status = 200
    /\ Idle
    /\ resp.body # << >>
    /\ \E i \in DOMAIN users : users[i].role = "student" /\ ~users[i].is_active

\* C6: getStudent(id) answers 404 only when no account with that id and role
\* student exists; otherwise it returns that account's view, whatever its
\* active flag (also after deleteStudent).
C6_GetIgnoresActive ==
    /\ (resp.op = "get" /\ resp.status = 404 /\ Idle) =>
          ~\E i \in DOMAIN users :
               users[i].id = resp.id /\ users[i].role = "student"
    /\ (resp.op = "get" /\ resp.status = 200) =>
          /\ Len(resp.body) = 1
          /\ resp.body[1].id = resp.id
          /\ \E i \in DOMAIN users :
                users[i].id = resp.id /\ users[i].role = "student"
          /\ Idle => \A i \in DOMAIN users :
                        users[i].id = resp.id =>
                            users[i].is_active = resp.body[1].is_active

\* getStudent returned an account that is inactive
C6_Witness ==
    /\ resp.op = "get"
    /\ resp.status = 200
    /\ ~resp.body[1].is_active

\* C7: updateStudent whose email is used by an account with another id is
\* answered 409 and no table changes during the request; 409 is given for
\* no other reason.
C7_UpdateConflict ==
    [][\A r \in Reqs :
          /\ (req[r].pc = "idle" /\ req'[r].op = "update") => tables' = tables
          /\ ( /\ UpdateEmailCheck(r, FALSE)
               /\ \E i \in DOMAIN users :
                     users[i].email = req[r].email /\ users[i].id # req[r].id )
             => (resp'.status = 409 /\ resp'.op = "update" /\ tables' = tables)
          /\ ( /\ req[r].op = "update"
               /\ req'[r].pc = "idle"
               /\ resp'.status = 409 )
             => ( /\ tables' = tables
                  /\ \E i \in DOMAIN users :
                       users[i].email = req[r].email /\ users[i].id # req[r].id )
      ]_vars

\* an update was refused with 409 and another account holds that email
C7_Witness ==
    /\ resp.op = "update"
    /\ resp.status = 409
    /\ \E i \in DOMAIN users : users[i].email = resp.email /\ users[i].id # resp.id
    /\ \E i \in DOMAIN users : users[i].id = resp.id /\ users[i].email # resp.email

\* the passwords a stored credential is a bcrypt digest of (none: plaintext)
HashedOf(stored) ==
    {p \in PasswordInputs \cup {DefaultPassword} :
        \E salt \in Salts : stored = BcryptHash(p, salt)}

\* the active accounts with that email
ActiveWithEmail(email) ==
    {i \in DOMAIN users : users[i].email = email /\ users[i].is_active}

\* C8: for an active account with a hashed credential, login with the
\* password it was hashed from answers 200 with that account, login with any
\* other password answers 401, and no login changes the store.
C8_HashedLogin ==
    [][\A email \in Emails, password \in PasswordInputs \ {<< >>} :
          Login(email, password, FALSE) =>
              /\ tables' = tables
              /\ req' = req
              /\ \A i \in ActiveWithEmail(email) :
                    HashedOf(users[i].password) # {} =>
                        IF password \in HashedOf(users[i].password)
                        THEN /\ resp'.status = 200
                             /\ resp'.body = <<[id |-> users[i].id,
                                                email |-> email,
                                                role |-> users[i].role]>>
                        ELSE /\ resp'.status = 401
                             /\ resp'.body = << >>]_vars

\* a login succeeded for an account whose credential is a digest
C8_Witness ==
    /\ resp.op = "login"
    /\ resp.status = 200
    /\ \E i \in DOMAIN users :
          /\ users[i].id = resp.body[1].id
          /\ HashedOf(users[i].password) # {}

\* C9: for an active account whose stored credential is plaintext, login
\* succeeds if and only if the supplied password equals the stored string,
\* whatever the stored string begins with.
C9_PlaintextLogin ==
    [][\A email \in Emails, password \in PasswordInputs \ {<< >>} :
          Login(email, password, FALSE) =>
              \A i \in ActiveWithEmail(email) :
                  HashedOf(users[i].password) = {} =>
                      (resp'.status = 200 <=> password = users[i].password)]_vars

\* C10: a login that fails (unknown email, inactive account, wrong password)
\* is answered 401 with one and the same message and no payload.
C10_UniformFailure ==
    [][\A email \in Emails, password \in PasswordInputs \ {<< >>} :
          Login(email, password, FALSE) =>
              \/ /\ resp'.status = 200
                 /\ \E i \in ActiveWithEmail(email) :
                       resp'.body[1].id = users[i].id
              \/ resp' = [op |-> "login", id |-> 0, email |-> email,
                          status |-> 401,
                          message |-> "Invalid email or password",
                          body |-> << >>]]_vars

\* a login failed on an email that only an inactive account has
C10_Witness ==
    /\ resp.op = "login"
    /\ resp.status = 401
    /\ \E i \in DOMAIN users : users[i].email = resp.email /\ ~users[i].is_active
    /\ ActiveWithEmail(resp.email) = {}

\* C11: listClassesWithCounts without a token (no header, or no second word
\* in it) is answered 401; with a token that is malformed, tampered with,
\* signed with another key or expired it is answered 403; the handler's
\* answers (200, 500) are given only for a token that verifies.
C11_TokenGuard ==
    [][\A header \in HeaderInputs, now \in Times, fail \in BOOLEAN :
          ListClasses(header, now, fail) =>
              LET present ==
                      /\ header.present
                      /\ header.rest # << >>
                      /\ header.rest[1] # << >>
                  token == header.rest[1]
                  verified ==
                      /\ present
                      /\ Len(token) = 2
                      /\ token[2] = <<JwtSecret, token[1]>>
                      /\ token[1].exp > now
              IN  /\ ~present => resp'.status = 401
                  /\ (present /\ ~verified) => resp'.status = 403
                  /\ resp'.status \in {200, 500} => verified
                  /\ verified => resp'.status = (IF fail THEN 500 ELSE 200)
                  /\ tables' = tables]_vars

\* a class list was refused with 403 while students exist
C11_Witness ==
    /\ resp.op = "classes"
    /\ resp.status = 403
    /\ students # << >>

\* C12: register with complete fields and an email that some account row
\* has, active or not, is answered 409 at its existence check, goes no
\* further (no INSERT follows) and changes no table.
C12_RegisterConflict ==
    [][\A r \in Reqs, email \in Emails, role \in RoleInputs :
          ( /\ RegisterBegin(r, email, PwA, "n1", role, FALSE)
            /\ \E i \in DOMAIN users : users[i].email = email )
          => /\ resp'.op = "register"
             /\ resp'.status = 409
             /\ resp'.email = email
             /\ req'[r].pc = "idle"
             /\ tables' = tables]_vars

\* register was refused with 409 for the email of a soft-deleted student
C12_Witness ==
    /\ resp.op = "register"
    /\ resp.status = 409
    /\ Idle
    /\ \E i \in DOMAIN users :
          /\ users[i].email = resp.email
          /\ users[i].role = "student"
          /\ ~users[i].is_active

\* the identifiers of the rows of a table
Ids(tbl) == {tbl[i].id : i \in DOMAIN tbl}

\* table new is table old with nothing but active flags changed
OnlyFlagsChanged(old, new) ==
    /\ Len(new) = Len(old)
    /\ \A i \in DOMAIN old : [new[i] EXCEPT !.is_active = old[i].is_active] = old[i]

\* C13: no step of any handler removes a row: the account identifiers and
\* the profile identifiers of the tables only grow, each table keeps its
\* length or gains one row, and every step of deleteStudent changes nothing
\* but active flags.
C13_NoPhysicalDelete ==
    [][/\ Ids(users) \subseteq Ids(users')
       /\ Ids(students) \subseteq Ids(students')
       /\ Len(users') >= Len(users)
       /\ Len(students') >= Len(students)
       /\ \A r \in Reqs :
             (req[r].op = "delete" \/ req'[r].op = "delete") =>
                 /\ OnlyFlagsChanged(users, users')
                 /\ OnlyFlagsChanged(students, students')]_vars

\* deleteStudent succeeded: the account and its profile are still there,
\* both inactive
C13_Witness ==
    /\ resp.op = "delete"
    /\ resp.status = 200
    /\ Idle
    /\ \E i \in DOMAIN users : users[i].id = resp.id /\ ~users[i].is_active
    /\ \E k \in DOMAIN students :
          students[k].user_id = resp.id /\ ~students[k].is_active

\* C14: createStudent with grade and section whose class SELECT is answered:
\* the class-link is the id of an active class with that grade and section
\* if there is one and null (0) if there is none; with grade or section
\* omitted no class is looked up and the link is null; the profile row
\* stored carries that link and the call is answered 201.
C14_ClassLink ==
    [][\A r \in Reqs :
          /\ (req[r].pc = "cs_insert" /\ req'[r].pc = "cs_profile") =>
                /\ req'[r].grade = "" \/ req'[r].section = ""
                /\ req'[r].classId = 0
          /\ (req[r].pc = "cs_insert" /\ req'[r].pc = "cs_class") =>
                (req'[r].grade # "" /\ req'[r].section # "")
          /\ CreateClassLookup(r, FALSE) =>
                LET match == {c \in Range(classes) :
                                 /\ c.grade = req[r].grade
                                 /\ c.section = req[r].section
                                 /\ c.is_active}
                IN  IF match = {} THEN req'[r].classId = 0
                    ELSE req'[r].classId \in {c.id : c \in match}
          /\ \A rollNo \in RollInputs :
                CreateInsertProfile(r, rollNo, FALSE) =>
                    /\ Len(students') = Len(students) + 1
                    /\ students'[Len(students')].user_id = req[r].userId
                    /\ students'[Len(students')].class_id = req[r].classId
                    /\ resp'.op = "create"
                    /\ resp'.status = 201]_vars

\* createStudent answered 201 and the profile is linked to a class
C14_Witness ==
    /\ resp.op = "create"
    /\ resp.status = 201
    /\ \E k \in DOMAIN students :
          /\ students[k].user_id = resp.body[1].id
          /\ students[k].class_id # 0
          /\ \E c \in Range(classes) :
                c.id = students[k].class_id /\ c.is_active

\* C15: when the class SELECT or the profile UPDATE of updateStudent is
\* rejected, or the profile UPDATE of deleteStudent, the call is still
\* answered 200, the users table is as the account-table write left it, and
\* the account row holds the new name and email (or is inactive).
C15_SecondaryFailureTolerated ==
    [][\A r \in Reqs :
          /\ ( \/ UpdateClassLookup(r, TRUE)
               \/ (req[r].pc = "us_profile" /\ students' = students
                     /\ req'[r].pc = "idle") )
             => /\ resp'.op = "update"
                /\ resp'.status = 200
                /\ users' = users
                /\ \E i \in DOMAIN users' :
                      /\ users'[i].id = req[r].id
                      /\ users'[i].email = req[r].email
                      /\ users'[i].first_name = req[r].firstName
          /\ DeleteProfile(r, TRUE)
             => /\ resp'.op = "delete"
                /\ resp'.status = 200
                /\ users' = users
                /\ \E i \in DOMAIN users' :
                      users'[i].id = req[r].id /\ ~users'[i].is_active]_vars

\* deleteStudent answered 200 although its profile UPDATE was rejected: the
\* account is inactive and its profile still active
C15_Witness ==
    /\ resp.op = "delete"
    /\ resp.status = 200
    /\ Idle
    /\ \E i \in DOMAIN users : users[i].id = resp.id /\ ~users[i].is_active
    /\ \E k \in DOMAIN students :
          students[k].user_id = resp.id /\ students[k].is_active

\* C16: between calls of createStudent, updateStudent and deleteStudent in
\* which no statement was rejected, each profile's active flag equals the
\* active flag of its account.
C16_ProfileMirrorsAccount ==
    Idle =>
        \A k \in DOMAIN students, i \in DOMAIN users :
            users[i].id = students[k].user_id =>
                students[k].is_active = users[i].is_active

\* C17: in every reachable state no two profile rows have the same account
\* identifier, and every profile row's account identifier is that of an
\* existing account with role student.
C17_OneProfilePerStudent ==
    /\ \A k, l \in DOMAIN students :
          students[k].user_id = students[l].user_id => k = l
    /\ \A k \in DOMAIN students :
          \E i \in DOMAIN users :
              users[i].id = students[k].user_id /\ users[i].role = "student"

\* two createStudent requests ran concurrently and both stored a profile
C17_Witness ==
    /\ Len(students) = 2
    /\ students[1].user_id # students[2].user_id

\* the identifiers of the accounts whose credential is no bcrypt digest
PlainIds(tbl) ==
    {tbl[i].id : i \in {j \in DOMAIN tbl : HashedOf(tbl[j].password) = {}}}

\* C18: no step adds an account with a plaintext credential: the set of
\* accounts holding one never grows, the row register inserts holds a digest
\* of the request's password, and the row createStudent inserts holds a
\* digest of the default password whatever the request carries.
C18_NewAccountsHashed ==
    [][/\ PlainIds(users') \subseteq PlainIds(users)
       /\ \A j \in DOMAIN users' :
             users'[j].id \notin Ids(users) =>
                 \A r \in Reqs :
                     /\ req[r].pc = "reg_insert" =>
                           HashedOf(users'[j].password) = {req[r].password}
                     /\ req[r].pc = "cs_insert" =>
                           HashedOf(users'[j].password) = {DefaultPassword}
      ]_vars

\* createStudent stored an account with the hashed default credential next
\* to a legacy account with a plaintext one
C18_Witness ==
    /\ resp.op = "create"
    /\ resp.status = 201
    /\ \E i \in DOMAIN users :
          /\ users[i].id = resp.body[1].id
          /\ HashedOf(users[i].password) = {DefaultPassword}
    /\ PlainIds(users) # {}

\* C19: the student code createStudent returns is the prefix and the
\* identifier zero-padded to width 3, and getStudent and listActiveStudents
\* return that same code for the account once the createStudent call is
\* over, with the profile row stored or not.
C19_StudentCodeStable ==
    /\ (resp.op = "create" /\ resp.status = 201) =>
          resp.body[1].studentId = StudentCode(resp.body[1].id)
    /\ (resp.op \in {"get", "list"} /\ resp.status = 200 /\ Idle) =>
          \A k \in DOMAIN resp.body :
              resp.body[k].student_id = StudentCode(resp.body[k].id)

\* the messages of a 500 response that say nothing of the error
GenericMessages == {"Internal server error", "Failed to fetch classes"}

\* C20: every 500 response carries a generic message, without the message
\* of the storage error.
C20_GenericInternalError ==
    resp.status = 500 => resp.message \in GenericMessages

\* C21: a class list answered 200 has one row for every active class, no
\* row for any other class, and in each row student_count is the number of
\* profile rows with active = true whose class-link is that class (0 for a
\* class without such profiles).
C21_ClassCounts ==
    (resp.op = "classes" /\ resp.status = 200) =>
        /\ \A c \in Range(classes) :
              c.is_active =>
                  Cardinality({k \in DOMAIN resp.body :
                                  resp.body[k].id = c.id}) = 1
        /\ \A k \in DOMAIN resp.body :
              \E c \in Range(classes) :
                  /\ c.id = resp.body[k].id
                  /\ c.is_active
                  /\ resp.body[k].student_count =
                        Cardinality({j \in DOMAIN students :
                                        /\ students[j].class_id = c.id
                                        /\ students[j].is_active})

\* a class list counted no student for a class to which the profile of a
\* deleted student is still linked
C21_Witness ==
    /\ resp.op = "classes"
    /\ resp.status = 200
    /\ \E k \in DOMAIN resp.body, j \in DOMAIN students :
          /\ students[j].class_id = resp.body[k].id
          /\ ~students[j].is_active
          /\ resp.body[k].student_count = 0

\* C22: updateStudent (with its required fields) and deleteStudent for an
\* identifier that no account with role student has (another role, or no
\* account) are answered 404 at the student check and change no table; and
\* no step of the student handlers changes the row of an account whose role
\* is not student.
C22_NonStudentUntouched ==
    [][/\ \A r \in Reqs, id \in IdInputs :
             (~\E i \in DOMAIN users :
                   users[i].id = id /\ users[i].role = "student")
             => /\ \A email \in Emails :
                      UpdateBegin(r, id, "n1", email, FALSE) =>
                          /\ resp'.op = "update"
                          /\ resp'.status = 404
                          /\ req'[r].pc = "idle"
                          /\ tables' = tables
                /\ DeleteBegin(r, id, FALSE) =>
                      /\ resp'.op = "delete"
                      /\ resp'.status = 404
                      /\ req'[r].pc = "idle"
                      /\ tables' = tables
       /\ \A i \in DOMAIN users :
             users[i].role # "student" =>
                 (i \in DOMAIN users' /\ users'[i] = users[i])]_vars

\* updateStudent or deleteStudent was refused with 404 for the identifier of
\* a teacher's account
C22_Witness ==
    /\ resp.op \in {"update", "delete"}
    /\ resp.status = 404
    /\ \E i \in DOMAIN users :
          users[i].id = resp.id /\ users[i].role = "teacher"

\* C23: the account-table write of updateStudent, when it is accepted, sets
\* the account's active flag to false if the body's isActive is false and to
\* true for any other isActive (absent, null); so after it an account that
\* deleteStudent had set inactive is, unless isActive is false, an active
\* student row with the request's email: the rows the list and the login
\* lookup select.
C23_UpdateSetsActive ==
    [][\A r \in Reqs, isActive \in IsActiveInputs :
          ( /\ UpdateUser(r, isActive, <<req'[r].grade, req'[r].section>>, FALSE)
            /\ req'[r].pc # "idle" )
          => /\ \E i \in DOMAIN users' : users'[i].id = req[r].id
             /\ \A i \in DOMAIN users' :
                   users'[i].id = req[r].id =>
                       /\ users'[i].is_active = (isActive # "false")
                       /\ users'[i].role = "student"
                       /\ users'[i].email = req[r].email]_vars

\* a student that deleteStudent had removed (its profile is inactive) has an
\* active account again and has logged in
C23_Witness ==
    /\ resp.op = "login"
    /\ resp.status = 200
    /\ \E i \in DOMAIN users, k \in DOMAIN students :
          /\ users[i].id = resp.body[1].id
          /\ users[i].role = "student"
          /\ users[i].is_active
          /\ students[k].user_id = users[i].id
          /\ ~students[k].is_active

\* C24: the account-table write of deleteStudent leaves the account inactive;
\* an inactive account becomes active again only by the account-table write
\* of an updateStudent; and while a student's account is inactive every login
\* with its email, whatever the password, is answered 401 "Invalid email or
\* password".
C24_DeletedCannotLogin ==
    [][/\ \A r \in Reqs :
             (DeleteUser(r, FALSE) /\ req'[r].pc # "idle") =>
                 \A i \in DOMAIN users' :
                     users'[i].id = req[r].id => ~users'[i].is_active
       /\ \A i \in DOMAIN users :
             (~users[i].is_active /\ users'[i].is_active) =>
                 \E r \in Reqs : req[r].pc = "us_update" /\ req[r].id = users[i].id
       /\ \A email \in Emails, password \in PasswordInputs \cup {DefaultPassword} :
             ( /\ password # << >>
               /\ \E i \in DOMAIN users :
                     /\ users[i].email = email
                     /\ users[i].role = "student"
                     /\ ~users[i].is_active
               /\ Login(email, password, FALSE) )
             => /\ resp'.status = 401
                /\ resp'.message = "Invalid email or password"
                /\ resp'.body = << >>]_vars

\* a login was refused on the email of a student that deleteStudent removed
\* (account and profile inactive)
C24_Witness ==
    /\ resp.op = "login"
    /\ resp.status = 401
    /\ Idle
    /\ \E i \in DOMAIN users, k \in DOMAIN students :
          /\ users[i].email = resp.email
          /\ users[i].role = "student"
          /\ ~users[i].is_active
          /\ students[k].user_id = users[i].id
          /\ ~students[k].is_active

\* C25: the profile UPDATE of updateStudent, when it is accepted, sets the
\* class-link of the student's profile to the class resolved in this request
\* (the id of an active class with the body's grade and section; null (0)
\* when there is none or when grade or section is omitted) whatever the
\* link was, and leaves the profile's student-code and active flag, and all
\* other profiles, as they were.
C25_UpdateOverwritesLink ==
    [][\A r \in Reqs :
          /\ (req[r].pc = "us_update" /\ req'[r].pc = "us_profile") =>
                /\ req'[r].grade = "" \/ req'[r].section = ""
                /\ req'[r].classId = 0
          /\ (req[r].pc = "us_update" /\ req'[r].pc = "us_class") =>
                (req'[r].grade # "" /\ req'[r].section # "")
          /\ UpdateClassLookup(r, FALSE) =>
                LET match == {c \in Range(classes) :
                                 /\ c.grade = req[r].grade
                                 /\ c.section = req[r].section
                                 /\ c.is_active}
                IN  IF match = {} THEN req'[r].classId = 0
                    ELSE req'[r].classId \in {c.id : c \in match}
          /\ \A rollNo \in RollInputs :
                UpdateProfile(r, rollNo, FALSE) =>
                    /\ resp'.op = "update"
                    /\ resp'.status = 200
                    /\ Len(students') = Len(students)
                    /\ \A k \in DOMAIN students :
                          IF students[k].user_id = req[r].id
                          THEN /\ students'[k].class_id = req[r].classId
                               /\ students'[k].student_id = students[k].student_id
                               /\ students'[k].is_active = students[k].is_active
                               /\ students'[k].user_id = students[k].user_id
                          ELSE students'[k] = students[k]]_vars

\* an updateStudent that resolved no class is at its profile UPDATE and the
\* student's profile is linked to a class
C25_Witness ==
    \E r \in Reqs, k \in DOMAIN students :
        /\ req[r].pc = "us_profile"
        /\ req[r].classId = 0
        /\ students[k].user_id = req[r].id
        /\ students[k].class_id # 0

=============================================================================
